---- MODULE Spec2Model ----
(***************************************************************************)
(* A model of 2048_game.c: the board primitives (place_tile, deflate_left, *)
(* combine_left, rotate_clockwise), the four moves, lose_game, and the     *)
(* session loop of main() with live input, recording and playback.         *)
(*                                                                         *)
(* A tile is a rank (0 = empty, r > 0 is displayed as 2^r).  A board is a  *)
(* sequence of NROWS rows, each a sequence of NCOLS ranks, indexed from 1  *)
(* (the C arrays are indexed from 0).  A struct game is a record           *)
(* [turns, score, board].  Characters and key codes are integers.          *)
(***************************************************************************)
EXTENDS Integers, Sequences, FiniteSets, TLC

VARIABLES
    game,       \* struct game of main() (or of the caller in SpecMoves)
    pc,         \* position in main(): place1 place2 check input spawn lose end
    seed,       \* the -s SEED given to srandom()
    rng,        \* state of the random() generator
    playing,    \* playfile != NULL
    playfile,   \* lines of the playback file
    pos,        \* number of lines getline() has consumed from playfile
    recording,  \* recfile != NULL
    recfile,    \* lines written to the record file so far
    last_turn,  \* main()'s last_turn
    key,        \* main()'s key: the last value get_input() returned
    place_ret,  \* the value returned by the last place_tile() call
    nreads,     \* number of get_input() calls made by this process
    hist,       \* this process: <<direction, game>> after each effective move
    session,    \* 1: the first process, 2: the playback of its recording
    live_hist,  \* hist of the first process, kept for the playback
    ncalls,     \* SpecMoves: number of calls made so far
    op,         \* SpecMoves: the last function called
    before,     \* SpecMoves: the struct game passed to that call
    ret,        \* SpecMoves: the value that call returned
    before_rng  \* SpecPlace: the state of the generator before that call

vars == <<game, pc, seed, rng, playing, playfile, pos, recording, recfile,
          last_turn, key, place_ret, nreads, hist, session, live_hist,
          ncalls, op, before, ret, before_rng>>

sessionVars == <<pc, seed, rng, playing, playfile, pos, recording, recfile,
                 last_turn, key, place_ret, nreads, hist, session, live_hist>>

----------------------------------------------------------------------------
(* Program constants *)

NROWS == 4
NCOLS == NROWS

\* key codes of <curses.h>, octal 0402..0405
KEY_DOWN == 258
KEY_UP == 259
KEY_LEFT == 260
KEY_RIGHT == 261

\* character codes
CH_a == 97
CH_d == 100
CH_q == 113
CH_s == 115
CH_w == 119
CH_NUL == 0
CH_TAB == 9
CH_NL == 10
CH_SPACE == 32
CH_0 == 48
CH_COLON == 58

(* Bounds of the model *)

MaxRank == 2        \* ranks of the sample boards of SpecMoves
MaxCalls == 2       \* calls made in a row in SpecMoves
MaxSeed == 1        \* seeds 0..MaxSeed
MaxLiveReads == 3   \* keys read by a live session before it quits
MaxLines == 2       \* lines of an enumerated playback file
MaxDraw == 34       \* generator states 0..MaxDraw of SpecPlace

----------------------------------------------------------------------------
(* Arithmetic helpers *)

RECURSIVE Pow2(_)
\* 1 << k
Pow2(k) == IF k <= 0 THEN 1 ELSE 2 * Pow2(k - 1)

\* a | b on the values 0 and 1
BitOr(a, b) == IF a # 0 \/ b # 0 THEN 1 ELSE 0

Bool2Int(b) == IF b THEN 1 ELSE 0

\* F applied to the value of v: v is evaluated once, as a C argument is
Bind(v, F(_)) == CHOOSE r \in {F(x) : x \in {v}} : TRUE

EmptyRow == [c \in 1..NCOLS |-> 0]
EmptyBoard == [r \in 1..NROWS |-> EmptyRow]

\* struct game game = {0}
ZeroGame == [turns |-> 0, score |-> 0, board |-> EmptyBoard]

\* lboard[i] = v, for the linear index i of 0..NROWS*NCOLS-1
SetCell(board, i, v) ==
    [board EXCEPT ![(i \div NCOLS) + 1][(i % NCOLS) + 1] = v]

\* lboard[i]
Cell(board, i) == board[(i \div NCOLS) + 1][(i % NCOLS) + 1]

Cells == 0..(NROWS * NCOLS - 1)

----------------------------------------------------------------------------
(* random(): a deterministic generator, a function of the seed given to    *)
(* srandom().  The C library's generator is stood for by a small linear    *)
(* congruential one: rng is its state and the value random() returns.      *)

Random(x) == (75 * x + 74) % 65537

(* place_tile *)

RECURSIVE CountZeros(_, _)
\* the first loop: the number of empty cells among lboard[i..]
CountZeros(board, i) ==
    IF i >= NROWS * NCOLS THEN 0
    ELSE (IF Cell(board, i) # 0 THEN 0 ELSE 1) + CountZeros(board, i + 1)

\* the cell is taken by its index, occupied or not
PlaceLoop_noSkip(board, i, loc) == loc

RECURSIVE PlaceLoop(_, _, _)
\* the second loop: the index i with !lboard[i] && !(loc--)
PlaceLoop(board, i, loc) ==
    IF i >= NROWS * NCOLS THEN -1      \* assert(0)
    ELSE IF Cell(board, i) = 0
         THEN IF loc = 0 THEN i ELSE PlaceLoop(board, i + 1, loc - 1)
         ELSE PlaceLoop(board, i + 1, loc)

\* the two ranks exchanged
NewRank_swapped(x) == IF x % 10 # 0 THEN 2 ELSE 1

\* random() % 10 ? 1 : 2
NewRank(x) == IF x % 10 # 0 THEN 1 ELSE 2

\* the rank is taken from the draw that chose the cell: one random() call
place_tile_oneDraw(g, x) ==
    LET num_zeros == CountZeros(g.board, 0)
    IN  IF num_zeros = 0 THEN [game |-> g, rng |-> x, ret |-> -1]
        ELSE LET x1 == Random(x)
                 loc == x1 % num_zeros
                 i == PlaceLoop(g.board, 0, loc)
             IN  [game |-> [g EXCEPT !.board = SetCell(g.board, i, NewRank(x1))],
                  rng |-> x1, ret |-> 0]

\* returns the game, the generator state and the return value
place_tile(g, x) ==
    LET num_zeros == CountZeros(g.board, 0)
    IN  IF num_zeros = 0 THEN [game |-> g, rng |-> x, ret |-> -1]
        ELSE LET x1 == Random(x)
                 loc == x1 % num_zeros
                 i == PlaceLoop(g.board, 0, loc)
                 x2 == Random(x1)
             IN  [game |-> [g EXCEPT !.board = SetCell(g.board, i, NewRank(x2))],
                  rng |-> x2, ret |-> 0]

----------------------------------------------------------------------------
(* combine_left: one left-to-right pass over c = 1..NCOLS-1 (here 2..NCOLS) *)

RECURSIVE CombineLoop_noClear(_, _, _, _)
\* the merged-away tile row[c] is not emptied
CombineLoop_noClear(row, score, c, did_combine) ==
    IF c > NCOLS THEN [row |-> row, score |-> score, ret |-> did_combine]
    ELSE IF row[c] # 0 /\ row[c-1] = row[c]
         THEN LET merged == [row EXCEPT ![c-1] = row[c-1] + 1]
              IN  CombineLoop_noClear(merged, score + Pow2(merged[c-1] - 1),
                                      c + 1, 1)
         ELSE CombineLoop_noClear(row, score, c + 1, did_combine)

RECURSIVE CombineLoop_fullValue(_, _, _, _)
\* the score grows by the whole value of the merged tile
CombineLoop_fullValue(row, score, c, did_combine) ==
    IF c > NCOLS THEN [row |-> row, score |-> score, ret |-> did_combine]
    ELSE IF row[c] # 0 /\ row[c-1] = row[c]
         THEN LET merged == [row EXCEPT ![c-1] = row[c-1] + 1, ![c] = 0]
              IN  CombineLoop_fullValue(merged, score + Pow2(merged[c-1]),
                                        c + 1, 1)
         ELSE CombineLoop_fullValue(row, score, c + 1, did_combine)

RECURSIVE CombineLoop_noIncrement(_, _, _, _)
\* the tile that absorbs its neighbour keeps its rank
CombineLoop_noIncrement(row, score, c, did_combine) ==
    IF c > NCOLS THEN [row |-> row, score |-> score, ret |-> did_combine]
    ELSE IF row[c] # 0 /\ row[c-1] = row[c]
         THEN LET merged == [row EXCEPT ![c] = 0]
              IN  CombineLoop_noIncrement(merged, score + Pow2(merged[c-1]),
                                          c + 1, 1)
         ELSE CombineLoop_noIncrement(row, score, c + 1, did_combine)

RECURSIVE CombineLoop(_, _, _, _)
CombineLoop(row, score, c, did_combine) ==
    IF c > NCOLS THEN [row |-> row, score |-> score, ret |-> did_combine]
    ELSE IF row[c] # 0 /\ row[c-1] = row[c]
         THEN LET merged == [row EXCEPT ![c-1] = row[c-1] + 1, ![c] = 0]
              IN  CombineLoop(merged, score + Pow2(merged[c-1] - 1), c + 1, 1)
         ELSE CombineLoop(row, score, c + 1, did_combine)

combine_left(score, row) ==
    Bind(<<score, row>>, LAMBDA a : CombineLoop(a[2], a[1], 2, 0))

(* deflate_left: copy the non-zero tiles to buf through the cursor out *)

RECURSIVE DeflateLoop_anyCopy(_, _, _, _, _)
\* did_deflate is set by every tile copied, moved or not
DeflateLoop_anyCopy(row, in, buf, out, did_deflate) ==
    IF in > NCOLS THEN [row |-> buf, ret |-> did_deflate]
    ELSE IF row[in] # 0
         THEN LET nbuf == [buf EXCEPT ![out] = row[in]]
              IN  DeflateLoop_anyCopy(row, in + 1, nbuf, out + 1, 1)
         ELSE DeflateLoop_anyCopy(row, in + 1, buf, out, did_deflate)

RECURSIVE DeflateLoop(_, _, _, _, _)
DeflateLoop(row, in, buf, out, did_deflate) ==
    IF in > NCOLS THEN [row |-> buf, ret |-> did_deflate]
    ELSE IF row[in] # 0
         THEN LET nbuf == [buf EXCEPT ![out] = row[in]]
              IN  DeflateLoop(row, in + 1, nbuf, out + 1,
                              BitOr(did_deflate, Bool2Int(nbuf[in] # row[in])))
         ELSE DeflateLoop(row, in + 1, buf, out, did_deflate)

deflate_left(row) == Bind(row, LAMBDA v : DeflateLoop(v, 1, EmptyRow, 1, 0))

(* rotate_clockwise: board[r][c] = buf[NCOLS - c - 1][r], 0-based *)

\* rows and columns exchanged: a transposition, not a rotation
rotate_clockwise_transpose(g) ==
    Bind(g, LAMBDA v :
        [v EXCEPT !.board = [r \in 1..NROWS |->
                                [c \in 1..NCOLS |-> v.board[c][r]]]])

\* the rotation with the indices the other way round: counter-clockwise
rotate_clockwise_ccw(g) ==
    Bind(g, LAMBDA v :
        [v EXCEPT !.board = [r \in 1..NROWS |->
                                [c \in 1..NCOLS |-> v.board[c][NROWS - r + 1]]]])

rotate_clockwise(g) ==
    Bind(g, LAMBDA v :
        [v EXCEPT !.board = [r \in 1..NROWS |->
                                [c \in 1..NCOLS |-> v.board[NCOLS - c + 1][r]]]])

(* move_left: deflate, combine, deflate on every row; turns += ret *)

\* turns counted for every move, effective or not
AddTurns_always(g, rv) == [g EXCEPT !.turns = g.turns + 1]

\* game->turns += ret
AddTurns(g, rv) == [g EXCEPT !.turns = g.turns + rv]

\* combine and deflate run a second time on the row
MoveLeftRow_twice(g, r) ==
    Bind(deflate_left(g.board[r]), LAMBDA d1 :
    Bind(combine_left(g.score, d1.row), LAMBDA cb :
    Bind(deflate_left(cb.row), LAMBDA d2 :
    Bind(combine_left(cb.score, d2.row), LAMBDA cb2 :
    Bind(deflate_left(cb2.row), LAMBDA d3 :
        [game |-> [g EXCEPT !.board[r] = d3.row, !.score = cb2.score],
         ret |-> BitOr(BitOr(d1.ret, cb.ret), d2.ret)])))))

\* the body of the loop for row r: the game after it and what it ors to ret
MoveLeftRow(g, r) ==
    Bind(deflate_left(g.board[r]), LAMBDA d1 :
    Bind(combine_left(g.score, d1.row), LAMBDA cb :
    Bind(deflate_left(cb.row), LAMBDA d2 :
        [game |-> [g EXCEPT !.board[r] = d2.row, !.score = cb.score],
         ret |-> BitOr(BitOr(d1.ret, cb.ret), d2.ret)])))

RECURSIVE MoveLeftLoop(_, _, _)
MoveLeftLoop(g, r, rv) ==
    IF r > NROWS THEN AddTurns(g, rv)
    ELSE Bind(MoveLeftRow(g, r), LAMBDA s :
             MoveLeftLoop(s.game, r + 1, BitOr(rv, s.ret)))

move_left(g) == Bind(g, LAMBDA v : MoveLeftLoop(v, 1, 0))

move_right(g) ==
    rotate_clockwise(rotate_clockwise(
        move_left(rotate_clockwise(rotate_clockwise(g)))))

move_up(g) ==
    rotate_clockwise(
        move_left(rotate_clockwise(rotate_clockwise(rotate_clockwise(g)))))

move_down(g) ==
    rotate_clockwise(rotate_clockwise(rotate_clockwise(
        move_left(rotate_clockwise(g)))))

(* lose_game: the four moves applied in turn to the by-value copy *)

\* only the horizontal moves tried
lose_game_horizontal(test_game) ==
    Bind(test_game, LAMBDA t :
        LET start_turns == t.turns
        IN  move_right(move_left(t)).turns = start_turns)

\* lost as soon as the board is full
lose_game_full(test_game) ==
    Bind(test_game, LAMBDA t : CountZeros(t.board, 0) = 0)

lose_game(test_game) ==
    Bind(test_game, LAMBDA t :
        LET start_turns == t.turns
        IN  move_right(move_down(move_up(move_left(t)))).turns = start_turns)

----------------------------------------------------------------------------
(* Input and recording *)

DirKeys == {CH_a, KEY_LEFT, CH_s, KEY_DOWN, CH_w, KEY_UP, CH_d, KEY_RIGHT}

\* the switch of main(): the move a key selects ("none" when it selects none)
MoveOfKey(k) ==
    CASE k \in {CH_a, KEY_LEFT} -> "move_left"
      [] k \in {CH_s, KEY_DOWN} -> "move_down"
      [] k \in {CH_w, KEY_UP} -> "move_up"
      [] k \in {CH_d, KEY_RIGHT} -> "move_right"
      [] OTHER -> "none"

RECURSIVE strspn(_, _)
\* strspn(line, " \t") for the line from 0-based index n on, plus n
strspn(line, n) ==
    IF n < Len(line) /\ line[n + 1] \in {CH_SPACE, CH_TAB}
    THEN strspn(line, n + 1) ELSE n

\* line[n] of a C string: the terminating NUL follows the last character
CharAt(line, n) == IF n < Len(line) THEN line[n + 1] ELSE CH_NUL

\* every line that does not start with a direction key ends the playback
get_input_strict(file, p) ==
    IF p < Len(file)
    THEN LET ch == CharAt(file[p + 1], strspn(file[p + 1], 0))
         IN  [key |-> IF ch \in DirKeys THEN ch ELSE CH_q, pos |-> p + 1]
    ELSE [key |-> CH_q, pos |-> p]

\* ret starts as 0 instead of 'q'
get_input_noEOF(file, p) ==
    IF p < Len(file)
    THEN [key |-> CharAt(file[p + 1], strspn(file[p + 1], 0)), pos |-> p + 1]
    ELSE [key |-> CH_NUL, pos |-> p]

\* get_input() reading playfile: the key returned and the lines consumed
get_input(file, p) ==
    IF p < Len(file)
    THEN [key |-> CharAt(file[p + 1], strspn(file[p + 1], 0)), pos |-> p + 1]
    ELSE [key |-> CH_q, pos |-> p]

RECURSIVE Digits(_)
\* printf("%d") of a non-negative int
Digits(n) == IF n < 10 THEN <<CH_0 + n>> ELSE Digits(n \div 10) \o <<CH_0 + (n % 10)>>

\* the int key passed as the char parameter of record() and printed by %c
ToChar(k) == k % 256

\* fprintf(recfile, "%c:%d\n", key, game->score)
RecordLine(k, g) == <<ToChar(k), CH_COLON>> \o Digits(g.score) \o <<CH_NL>>

record(k, g, file, rec) == IF rec THEN Append(file, RecordLine(k, g)) ELSE file

\* the tile is placed and the key recorded after every key
Effective_always(lt, g) == TRUE

\* if (last_turn != game.turns)
Effective(lt, g) == lt # g.turns

----------------------------------------------------------------------------
(* SpecMoves: the functions called on sample games, MaxCalls calls in a    *)
(* row.  The sample boards are the boards <<r1, r2, r1, r2>> with r1 any   *)
(* row and r2 = <<a, b, a, b>>, and the boards holding one or two tiles.   *)

Ranks == 0..MaxRank
Rows == [1..NCOLS -> Ranks]
HalfRows == {[c \in 1..NCOLS |-> IF c % 2 = 1 THEN a ELSE b] : a, b \in Ranks}
PatternBoards == {[r \in 1..NROWS |-> IF r % 2 = 1 THEN r1 ELSE r2] :
                     r1 \in Rows, r2 \in HalfRows}

SparseBoards == {SetCell(SetCell(EmptyBoard, i, a), j, b) :
                    i, j \in Cells, a, b \in 1..MaxRank}

SampleBoards == PatternBoards \cup SparseBoards

MoveOps == {"move_left", "move_right", "move_up", "move_down"}

ApplyMove(m, g) ==
    CASE m = "move_left" -> move_left(g)
      [] m = "move_right" -> move_right(g)
      [] m = "move_up" -> move_up(g)
      [] m = "move_down" -> move_down(g)

IdleSession ==
    /\ pc = "call" /\ seed = 0 /\ rng = 0
    /\ playing = FALSE /\ playfile = <<>> /\ pos = 0
    /\ recording = FALSE /\ recfile = <<>>
    /\ last_turn = 0 /\ key = 0 /\ place_ret = 0 /\ nreads = 0
    /\ hist = <<>> /\ session = 0 /\ live_hist = <<>>

InitMoves ==
    /\ game \in {[ZeroGame EXCEPT !.board = b] : b \in SampleBoards}
    /\ ncalls = 0 /\ op = "none" /\ before = game /\ ret = 0
    /\ before_rng = 0
    /\ IdleSession

\* a caller runs one of the four moves on its game
CallMove(m) ==
    /\ pc = "call" /\ ncalls < MaxCalls
    /\ game' = ApplyMove(m, game)
    /\ op' = m /\ before' = game /\ ret' = 0 /\ ncalls' = ncalls + 1
    /\ UNCHANGED <<sessionVars, before_rng>>

CallMoveLeft == CallMove("move_left")
CallMoveRight == CallMove("move_right")
CallMoveUp == CallMove("move_up")
CallMoveDown == CallMove("move_down")

CallRotate ==
    /\ pc = "call" /\ ncalls < MaxCalls
    /\ game' = rotate_clockwise(game)
    /\ op' = "rotate_clockwise" /\ before' = game /\ ret' = 0
    /\ ncalls' = ncalls + 1
    /\ UNCHANGED <<sessionVars, before_rng>>

\* lose_game takes its argument by value: the caller's game is not touched
CallLoseGame ==
    /\ pc = "call" /\ ncalls < MaxCalls
    /\ ret' = Bool2Int(lose_game(game))
    /\ op' = "lose_game" /\ before' = game /\ ncalls' = ncalls + 1
    /\ UNCHANGED game
    /\ UNCHANGED <<sessionVars, before_rng>>

NextMoves ==
    \/ CallMoveLeft
    \/ CallMoveRight
    \/ CallMoveUp
    \/ CallMoveDown
    \/ CallRotate
    \/ CallLoseGame

SpecMoves == InitMoves /\ [][NextMoves]_vars

----------------------------------------------------------------------------
(* Reference notions used to state the properties of the moves *)

\* the board read along the direction of a move: line k, listed from the
\* edge the move goes to
Reverse(line) == [c \in 1..NCOLS |-> line[NCOLS - c + 1]]
Column(b, c) == [r \in 1..NROWS |-> b[r][c]]
Lines(m, b) ==
    CASE m = "move_left" -> b
      [] m = "move_right" -> [k \in 1..NROWS |-> Reverse(b[k])]
      [] m = "move_up" -> [k \in 1..NCOLS |-> Column(b, k)]
      [] m = "move_down" -> [k \in 1..NCOLS |-> Reverse(Column(b, k))]

\* the non-empty tiles of a line, in order
Tiles(line) == SelectSeq(line, LAMBDA t : t # 0)

\* pairs of equal neighbours merged, nearest the edge first, each tile once
RECURSIVE RefMerge(_)
RefMerge(t) ==
    IF Len(t) < 2 THEN t
    ELSE IF t[1] = t[2] THEN <<t[1] + 1>> \o RefMerge(Tail(Tail(t)))
         ELSE <<t[1]>> \o RefMerge(Tail(t))

\* the displayed values of the tiles those merges create, added up
RECURSIVE RefMergedValue(_)
RefMergedValue(t) ==
    IF Len(t) < 2 THEN 0
    ELSE IF t[1] = t[2] THEN Pow2(t[1] + 1) + RefMergedValue(Tail(Tail(t)))
         ELSE RefMergedValue(Tail(t))

Pad(t) == [c \in 1..NCOLS |-> IF c <= Len(t) THEN t[c] ELSE 0]

RECURSIVE SumTo(_, _)
\* f[1] + ... + f[n]
SumTo(f, n) == IF n = 0 THEN 0 ELSE f[n] + SumTo(f, n - 1)

RECURSIVE RotN(_, _)
\* rotate_clockwise^k
RotN(g, k) == IF k = 0 THEN g ELSE RotN(rotate_clockwise(g), k - 1)

NumTiles(b) == Cardinality({i \in Cells : Cell(b, i) # 0})

----------------------------------------------------------------------------
(* C1. Effective-move gating: each of the four moves raises turns by       *)
(* exactly 1 when the board after it differs from the board before it and  *)
(* by 0 when the board is unchanged; when turns is unchanged so is score.  *)
C1_EffectiveMoveGating ==
    op \in MoveOps =>
        /\ game.turns = before.turns + Bool2Int(game.board # before.board)
        /\ (game.turns = before.turns => game.score = before.score)

\* a move_left that changed at least two rows and counted one turn
C1_Witness ==
    /\ op = "move_left"
    /\ Cardinality({r \in 1..NROWS : game.board[r] # before.board[r]}) >= 2
    /\ game.turns = before.turns + 1

(* C2. Terminal check: lose_game, which runs the four moves one after the  *)
(* other on the same copy, returns true exactly when each of the four      *)
(* moves run on its own fresh copy leaves that copy's turns unchanged.     *)
C2_TerminalCheck ==
    op = "lose_game" =>
        (ret = 1 <=> \A m \in MoveOps : ApplyMove(m, before).turns = before.turns)

\* lose_game returned false on a game where move_left alone is effective
C2_Witness ==
    /\ op = "lose_game" /\ ret = 0
    /\ move_left(before).turns # before.turns
    /\ \A m \in MoveOps \ {"move_left"} :
           ApplyMove(m, before).turns = before.turns

(* C6. Merge scoring: a move adds to score, for every merge it performs,   *)
(* the displayed value of the tile the merge creates; move_left turns a    *)
(* row of ranks 1,1,2,2 into 2,3,0,0 (worth 12) and 1,0,1,1 into 2,1,0,0   *)
(* (worth 4).                                                              *)
C6_MergeScoring ==
    op \in MoveOps =>
        /\ game.score - before.score =
              SumTo([k \in 1..NROWS |->
                        RefMergedValue(Tiles(Lines(op, before.board)[k]))], NROWS)
        /\ op = "move_left" =>
              \A r \in 1..NROWS :
                 /\ before.board[r] = <<1, 1, 2, 2>> => game.board[r] = <<2, 3, 0, 0>>
                 /\ before.board[r] = <<1, 0, 1, 1>> => game.board[r] = <<2, 1, 0, 0>>

(* C10. Direction equivalence: move_right, move_up and move_down equal     *)
(* move_left bracketed by 2+2, 3+1 and 1+3 clockwise rotations; so each    *)
(* leaves the grid in its orientation with every line compacted and merged *)
(* toward the last column, row 0 and the last row respectively, nearest    *)
(* pairs first, with the score and turns of move_left on the lines.        *)
C10_DirectionEquivalence ==
    op \in MoveOps \ {"move_left"} =>
        LET pre == CASE op = "move_right" -> 2 [] op = "move_up" -> 3
                     [] op = "move_down" -> 1
            lb == [before EXCEPT !.board = Lines(op, before.board)]
            la == move_left(lb)
        IN  /\ game = RotN(move_left(RotN(before, pre)), NROWS - pre)
            /\ Lines(op, game.board) = la.board
            /\ game.score = la.score /\ game.turns = la.turns
            /\ \A k \in 1..NROWS :
                   la.board[k] = Pad(RefMerge(Tiles(lb.board[k])))

\* a move_down that merged tiles into the last row
C10_Witness ==
    /\ op = "move_down"
    /\ game.score > before.score
    /\ \E c \in 1..NCOLS : /\ game.board[NROWS][c] > before.board[NROWS][c]
                            /\ before.board[NROWS][c] # 0

----------------------------------------------------------------------------
(* Spec: main().  A process is started live (keys from the keyboard, with  *)
(* or without -r) or with -p on a playback file; the recording of a live   *)
(* process can then be played back by a second process with the same seed. *)

\* keys the keyboard can deliver: the eight direction keys, q and x
LiveKeys == DirKeys \cup {CH_q, 120}

\* sample lines of a playback file
SampleLines ==
    { <<CH_a, CH_COLON, CH_0, CH_NL>>, <<CH_s, CH_NL>>, <<CH_w, CH_NL>>,
      <<CH_d, CH_NL>>, <<CH_q, CH_NL>>, <<120, CH_NL>>, <<CH_NL>>,
      <<CH_SPACE, CH_TAB, CH_NL>>, <<CH_SPACE, CH_a, CH_NL>> }

RECURSIVE FilesOfLen(_)
FilesOfLen(n) ==
    IF n = 0 THEN {<<>>}
    ELSE {Append(f, l) : f \in FilesOfLen(n - 1), l \in SampleLines}

\* a longer file: a game that seed 0 loses after 17 moves, and one more line
LongFile ==
    [i \in 1..18 |->
        <<<<CH_s, CH_w, CH_w, CH_s, CH_s, CH_w, CH_a, CH_d, CH_a, CH_a, CH_d,
            CH_a, CH_d, CH_d, CH_s, CH_w, CH_s, CH_a>>[i], CH_NL>>]

\* a game in which seed 0 fills the board after 16 moves with moves still
\* possible, and one of them
FullFile ==
    [i \in 1..17 |->
        <<<<CH_s, CH_d, CH_w, CH_a, CH_a, CH_w, CH_w, CH_s, CH_w, CH_s, CH_w,
            CH_s, CH_w, CH_s, CH_w, CH_s, CH_a>>[i], CH_NL>>]

PlayFiles == UNION {FilesOfLen(n) : n \in 0..MaxLines} \cup {LongFile, FullFile}

Init ==
    /\ game = ZeroGame
    /\ pc = "place1"
    /\ seed \in 0..MaxSeed
    /\ rng = seed                       \* srandom(seed)
    /\ playing \in BOOLEAN
    /\ playfile \in (IF playing THEN PlayFiles ELSE {<<>>})
    /\ pos = 0
    /\ recording \in BOOLEAN
    /\ recfile = <<>>
    /\ last_turn = 0 /\ key = 0 /\ place_ret = 0 /\ nreads = 0
    /\ hist = <<>> /\ session = 1 /\ live_hist = <<>>
    /\ ncalls = 0 /\ op = "none" /\ before = ZeroGame /\ ret = 0
    /\ before_rng = 0

callVars == <<ncalls, op, before, ret, before_rng>>

\* place_tile(&game), twice, before the loop
PlaceInitial ==
    /\ pc \in {"place1", "place2"}
    /\ LET p == place_tile(game, rng)
       IN  game' = p.game /\ rng' = p.rng /\ place_ret' = p.ret
    /\ pc' = IF pc = "place1" THEN "place2" ELSE "check"
    /\ UNCHANGED <<seed, playing, playfile, pos, recording, recfile, last_turn,
                   key, nreads, hist, session, live_hist, callVars>>

\* if (lose_game(game)) goto lose
Lose ==
    /\ pc = "check" /\ lose_game(game)
    /\ pc' = "lose"
    /\ UNCHANGED <<game, seed, rng, playing, playfile, pos, recording, recfile,
                   last_turn, key, place_ret, nreads, hist, session, live_hist,
                   callVars>>

\* lose_game works on main()'s game itself, not on a copy
Continue_byReference ==
    /\ pc = "check" /\ ~lose_game(game)
    /\ game' = move_right(move_down(move_up(move_left(game))))
    /\ last_turn' = game'.turns
    /\ pc' = "input"
    /\ UNCHANGED <<seed, rng, playing, playfile, pos, recording, recfile,
                   key, place_ret, nreads, hist, session, live_hist, callVars>>

\* lose_game(game) is false: last_turn = game.turns
Continue ==
    /\ pc = "check" /\ ~lose_game(game)
    /\ last_turn' = game.turns
    /\ pc' = "input"
    /\ UNCHANGED <<game, seed, rng, playing, playfile, pos, recording, recfile,
                   key, place_ret, nreads, hist, session, live_hist, callVars>>

\* the switch on the key k that get_input() returned
Dispatch(k) ==
    /\ key' = k
    /\ nreads' = nreads + 1
    /\ IF k = CH_q
       THEN pc' = "end" /\ UNCHANGED game
       ELSE /\ game' = IF MoveOfKey(k) = "none" THEN game
                       ELSE ApplyMove(MoveOfKey(k), game)
            /\ pc' = IF Effective(last_turn, game') THEN "spawn" ELSE "check"
    /\ UNCHANGED <<seed, rng, playing, playfile, recording, recfile, last_turn,
                   place_ret, hist, session, live_hist, callVars>>

\* key = getch()
ReadLive ==
    /\ pc = "input" /\ ~playing
    /\ \E k \in LiveKeys :
          /\ k # CH_q => nreads < MaxLiveReads
          /\ Dispatch(k)
    /\ UNCHANGED pos

\* key = get_input() with playfile set
ReadPlayback ==
    /\ pc = "input" /\ playing
    /\ LET in == get_input(playfile, pos)
       IN  Dispatch(in.key) /\ pos' = in.pos

\* the move advanced turns: place_tile(&game); record(key, &game)
Spawn ==
    /\ pc = "spawn"
    /\ LET p == place_tile(game, rng)
       IN  /\ game' = p.game /\ rng' = p.rng /\ place_ret' = p.ret
           /\ recfile' = record(key, p.game, recfile, recording)
           /\ hist' = Append(hist, [dir |-> MoveOfKey(key), game |-> p.game])
    /\ pc' = "check"
    /\ UNCHANGED <<seed, playing, playfile, pos, recording, last_turn, key,
                   nreads, session, live_hist, callVars>>

\* a second process plays the recording back: -s seed -p recfile [-r ...]
Replay ==
    /\ pc \in {"lose", "end"} /\ session = 1 /\ ~playing /\ recording
    /\ game' = ZeroGame /\ pc' = "place1" /\ rng' = seed
    /\ playing' = TRUE /\ playfile' = recfile /\ pos' = 0
    /\ recording' \in BOOLEAN /\ recfile' = <<>>
    /\ last_turn' = 0 /\ key' = 0 /\ place_ret' = 0 /\ nreads' = 0
    /\ live_hist' = hist /\ hist' = <<>> /\ session' = 2
    /\ UNCHANGED <<seed, callVars>>

Next ==
    \/ PlaceInitial
    \/ Lose
    \/ Continue
    \/ ReadLive
    \/ ReadPlayback
    \/ Spawn
    \/ Replay

Spec == Init /\ [][Next]_vars

(* PlaybackSpec: the processes started with -p.  The loop of main() runs   *)
(* on: the process is never suspended for ever, since get_input() does not *)
(* wait for a key when it reads the playback file.                         *)

InitPlayback == Init /\ playing

NextPlayback ==
    \/ PlaceInitial
    \/ Lose
    \/ Continue
    \/ ReadPlayback
    \/ Spawn

PlaybackSpec == InitPlayback /\ [][NextPlayback]_vars /\ WF_vars(NextPlayback)

----------------------------------------------------------------------------
(* Properties of the session *)

RECURSIVE ParseInt(_, _, _)
\* the decimal number that starts at line[i]
ParseInt(line, i, acc) ==
    IF i > Len(line) \/ line[i] < CH_0 \/ line[i] > CH_0 + 9 THEN acc
    ELSE ParseInt(line, i + 1, 10 * acc + (line[i] - CH_0))

\* the score field of a record "<key>:<score>"
ScoreOf(line) == ParseInt(line, 3, 0)

\* the first character of a line that is neither a space nor a tab
FirstNonBlank(line) ==
    LET rest == SelectSeq(line, LAMBDA ch : ch \notin {CH_SPACE, CH_TAB})
    IN  IF Len(rest) = 0 THEN CH_NUL ELSE rest[1]

Terminal == {"lose", "end"}

(* C3. Turn-loop gating: an iteration spawns exactly one tile and appends  *)
(* exactly one record (to the record file, when there is one) exactly when *)
(* the key read was a direction whose move advanced turns, the record      *)
(* holding that key and the score right after the move; an unrecognized    *)
(* key or an ineffective move leaves board, score, turns and the log as    *)
(* they were and the loop goes on.                                         *)
C3_TurnLoopGating ==
    [][ /\ (pc = "input" /\ nreads' = nreads + 1) =>
             IF /\ key' \in DirKeys
                /\ ApplyMove(MoveOfKey(key'), game).turns # game.turns
             THEN pc' = "spawn" /\ game' = ApplyMove(MoveOfKey(key'), game)
                  /\ recfile' = recfile
             ELSE /\ UNCHANGED <<game, recfile, rng>>
                  /\ pc' = IF key' = CH_q THEN "end" ELSE "check"
        /\ (pc = "spawn" /\ pc' # pc) =>
             /\ NumTiles(game'.board) = NumTiles(game.board) + 1
             /\ game'.score = game.score /\ game'.turns = game.turns
             /\ pc' = "check"
             /\ IF recording
                THEN /\ Len(recfile') = Len(recfile) + 1
                     /\ SubSeq(recfile', 1, Len(recfile)) = recfile
                     /\ recfile'[Len(recfile')][1] = key % 256
                     /\ ScoreOf(recfile'[Len(recfile')]) = game.score
                ELSE recfile' = recfile
        /\ pc = "check" => UNCHANGED <<game, recfile, rng>>
      ]_vars

\* an effective move has been followed by one spawn and one record
C3_Witness ==
    /\ pc = "check" /\ recording /\ session = 1
    /\ game.turns = 2 /\ Len(recfile) = 2 /\ NumTiles(game.board) = 4
    /\ nreads > 2

(* C4. Spawn never fails during play: every place_tile call, the two       *)
(* before the loop and the one after each effective move, finds an empty   *)
(* cell and so never returns -1.                                           *)
C4_SpawnNeverFails ==
    /\ place_ret # -1
    /\ pc \in {"place1", "place2", "spawn"} => CountZeros(game.board, 0) > 0

\* a spawn after an effective move took the last empty cell
C4_Witness ==
    /\ game.turns > 0 /\ place_ret = 0 /\ pc = "check"
    /\ NumTiles(game.board) = NROWS * NCOLS

(* C5. Record then playback: a playback with the same seed of the record   *)
(* of a live session applies the same directions, passes through the same  *)
(* game states after every effective move, and its score after the k-th    *)
(* one is the score of the k-th record; for the letter and the arrow keys. *)
C5_RecordThenPlayback ==
    (session = 2 /\ pc \in Terminal) =>
        /\ hist = live_hist
        /\ \A k \in 1..Len(hist) :
               k <= Len(playfile) /\ hist[k].game.score = ScoreOf(playfile[k])

(* C7 as stated. Playback input mapping: every line of the playback file   *)
(* whose first non-blank character is not a direction key (an unrecognized *)
(* key, an empty line, blanks only) makes the session quit on that line.   *)
C7_UnrecognizedLineQuits ==
    [][ (playing /\ pc = "input" /\ nreads' = nreads + 1 /\ pos < Len(playfile)
         /\ FirstNonBlank(playfile[pos + 1]) \notin DirKeys) => pc' = "end"
      ]_vars

(* C7 amended. In playback only the exhausted file and a line whose first  *)
(* non-blank character is q make the session quit; any other line whose    *)
(* first non-blank character is not a direction key is consumed and        *)
(* ignored: game and record file stay as they are and the loop goes on to  *)
(* the next line.                                                          *)
C7_UnrecognizedLineIgnored ==
    [][ (playing /\ pc = "input" /\ nreads' = nreads + 1) =>
           IF pos >= Len(playfile) THEN pc' = "end" /\ pos' = pos
           ELSE LET ch == FirstNonBlank(playfile[pos + 1])
                IN  /\ pos' = pos + 1
                    /\ ch = CH_q => pc' = "end"
                    /\ ch \notin DirKeys \cup {CH_q} =>
                           pc' = "check" /\ UNCHANGED <<game, recfile, rng>>
      ]_vars

\* an empty line has been read and the session still plays
C7_Witness ==
    /\ playing /\ pos > 0 /\ pc = "check"
    /\ playfile[pos] = <<CH_NL>> /\ key = CH_NL

(* C8. Playback termination: with a playback file of L lines, reading past *)
(* the last line yields q, each line is consumed at most once, so at most  *)
(* L+1 keys are read and the session reaches lose or end; from there on    *)
(* nothing moves, spawns or is recorded.                                   *)
C8_PlaybackTerminates ==
    /\ [](playing => /\ nreads <= Len(playfile) + 1
                      /\ pos <= Len(playfile) /\ pos <= nreads)
    /\ [][ playing' /\ playing =>
             /\ pos' \in {pos, pos + 1}
             /\ pos' = pos + 1 => nreads' = nreads + 1
             /\ (pc = "input" /\ pos = Len(playfile) /\ nreads' # nreads) =>
                    pc' = "end"
             /\ pc \in Terminal => UNCHANGED <<game, rng, recfile, pos, nreads, pc>>
         ]_vars
    /\ (playing ~> (pc \in Terminal))

\* the read after the last line of a non-empty file has ended the session
C8_Witness ==
    /\ playing /\ pc = "end" /\ Len(playfile) > 0
    /\ pos = Len(playfile) /\ nreads = Len(playfile) + 1

(* C9. Initial state: before the first terminal check and the first key,   *)
(* score and turns are 0 and the board holds exactly two tiles, each of    *)
(* rank 1 or 2, all other cells being 0.                                   *)
C9_InitialState ==
    (pc \in {"check", "input"} /\ nreads = 0) =>
        /\ game.score = 0 /\ game.turns = 0
        /\ NumTiles(game.board) = 2
        /\ \A i \in Cells : Cell(game.board, i) \in {0, 1, 2}

\* the loop is entered with the two tiles placed
C9_Witness ==
    /\ pc = "check" /\ nreads = 0 /\ place_ret = 0
    /\ NumTiles(game.board) = 2

----------------------------------------------------------------------------
(* Further properties of the board functions, checked under SpecMoves *)

\* the sum of the displayed values 2^rank of the tiles of a row, of a board
RowValue(row) ==
    SumTo([c \in 1..NCOLS |-> IF row[c] = 0 THEN 0 ELSE Pow2(row[c])], NCOLS)
BoardValue(b) == SumTo([r \in 1..NROWS |-> RowValue(b[r])], NROWS)

\* the number of cells of a board that hold rank v
CountRank(b, v) == Cardinality({i \in Cells : Cell(b, i) = v})

(* C11. At most one merge per cell per move: in one move_left every tile   *)
(* of a row takes part in at most one merge and a merged tile is not       *)
(* merged again: the row becomes its tiles merged pairwise from the left,  *)
(* each once; 1,1,1,1 gives 2,2,0,0, 1,1,2,0 gives 2,2,0,0 and 1,1,1,0     *)
(* gives 2,1,0,0.                                                          *)
C11_OneMergePerCell ==
    op = "move_left" =>
        \A r \in 1..NROWS :
           /\ game.board[r] = Pad(RefMerge(Tiles(before.board[r])))
           /\ 2 * Len(Tiles(game.board[r])) >= Len(Tiles(before.board[r]))
           /\ before.board[r] = <<1, 1, 1, 1>> => game.board[r] = <<2, 2, 0, 0>>
           /\ before.board[r] = <<1, 1, 2, 0>> => game.board[r] = <<2, 2, 0, 0>>
           /\ before.board[r] = <<1, 1, 1, 0>> => game.board[r] = <<2, 1, 0, 0>>

\* move_left has turned a row 1,1,2,0 into 2,2,0,0
C11_Witness ==
    /\ op = "move_left"
    /\ \E r \in 1..NROWS : /\ before.board[r] = <<1, 1, 2, 0>>
                            /\ game.board[r] = <<2, 2, 0, 0>>

(* C15. Rotation: rotate_clockwise moves the value at row r, column c      *)
(* (from 0) to row c, column N-1-r and leaves score and turns alone; four  *)
(* rotations give the board back and one to three rotations keep the       *)
(* multiset of ranks.                                                      *)
C15_Rotation ==
    op = "rotate_clockwise" =>
        /\ \A r \in 0..(NROWS - 1), c \in 0..(NCOLS - 1) :
               game.board[c + 1][(NCOLS - 1 - r) + 1] = before.board[r + 1][c + 1]
        /\ game.score = before.score /\ game.turns = before.turns
        /\ Bind(rotate_clockwise(game), LAMBDA g2 :
           Bind(rotate_clockwise(g2), LAMBDA g3 :
              /\ rotate_clockwise(g3) = before
              /\ \A v \in {Cell(before.board, i) : i \in Cells} :
                    \A g \in {game, g2, g3} :
                        CountRank(g.board, v) = CountRank(before.board, v)))

\* a rotation has moved a tile out of the first row into the last column
C15_Witness ==
    /\ op = "rotate_clockwise"
    /\ before.board[1][2] # 0 /\ game.board[2][NCOLS] = before.board[1][2]
    /\ game.board # before.board

(* C17. Merge conservation: combine_left keeps the sum of the displayed    *)
(* values of a row, and deflate_left, rotate_clockwise and the four moves  *)
(* keep the sum over the board; only place_tile changes it.                *)
C17_MergeConservation ==
    /\ op \in MoveOps \cup {"rotate_clockwise"} =>
          BoardValue(game.board) = BoardValue(before.board)
    /\ op = "move_left" =>
          \A r \in 1..NROWS :
             Bind(deflate_left(before.board[r]), LAMBDA d1 :
             Bind(combine_left(before.score, d1.row), LAMBDA cb :
             Bind(RowValue(before.board[r]), LAMBDA v :
                 /\ RowValue(d1.row) = v
                 /\ RowValue(cb.row) = v
                 /\ RowValue(deflate_left(cb.row).row) = v
                 /\ RowValue(combine_left(before.score, before.board[r]).row)
                       = v)))
    /\ op = "none" =>
          Bind(place_tile(game, rng), LAMBDA p :
              IF p.ret = 0
              THEN BoardValue(p.game.board) - BoardValue(game.board) \in {2, 4}
              ELSE p.game = game)

\* a move has merged tiles and the board is worth what it was
C17_Witness ==
    /\ op \in MoveOps
    /\ game.score > before.score
    /\ NumTiles(game.board) < NumTiles(before.board)
    /\ BoardValue(game.board) = BoardValue(before.board)

----------------------------------------------------------------------------
(* SpecRows: deflate_left and combine_left called on the first row of a    *)
(* game, as move_left calls them on game->board[r], MaxCalls calls in a    *)
(* row, from every row of ranks 0..MaxRank.                                *)

InitRows ==
    /\ game \in {[ZeroGame EXCEPT !.board[1] = row] : row \in Rows}
    /\ ncalls = 0 /\ op = "none" /\ before = game /\ ret = 0
    /\ before_rng = 0
    /\ IdleSession

CallDeflateLeft ==
    /\ pc = "call" /\ ncalls < MaxCalls
    /\ LET d == deflate_left(game.board[1])
       IN  /\ game' = [game EXCEPT !.board[1] = d.row]
           /\ ret' = d.ret
    /\ op' = "deflate_left" /\ before' = game /\ ncalls' = ncalls + 1
    /\ UNCHANGED <<sessionVars, before_rng>>

CallCombineLeft ==
    /\ pc = "call" /\ ncalls < MaxCalls
    /\ LET cb == combine_left(game.score, game.board[1])
       IN  /\ game' = [game EXCEPT !.board[1] = cb.row, !.score = cb.score]
           /\ ret' = cb.ret
    /\ op' = "combine_left" /\ before' = game /\ ncalls' = ncalls + 1
    /\ UNCHANGED <<sessionVars, before_rng>>

NextRows ==
    \/ CallDeflateLeft
    \/ CallCombineLeft

SpecRows == InitRows /\ [][NextRows]_vars

RECURSIVE MergesAt(_, _)
\* the cell c of a row (from 1) is merged into its left neighbour: it holds
\* a tile equal to that neighbour, which has not itself been merged away
MergesAt(row, c) ==
    /\ c >= 2
    /\ row[c] # 0 /\ row[c] = row[c-1]
    /\ ~MergesAt(row, c - 1)

\* no empty cell is followed by a tile
NoGaps(row) == \A c \in 1..(NCOLS - 1) : row[c] = 0 => row[c+1] = 0

(* C12. The step of combine_left: scanning left to right, whenever row[c]  *)
(* is a tile equal to row[c-1], row[c-1] grows by one rank, row[c] becomes *)
(* empty and 2^(new rank - 1) is added to the score; nothing else changes, *)
(* and the function returns nonzero if and only if a merge occurred.       *)
C12_CombineStep ==
    op = "combine_left" =>
        LET row0 == before.board[1]
            row1 == game.board[1]
            merged == {c \in 1..NCOLS : MergesAt(row0, c)}
        IN  /\ \A c \in 1..NCOLS :
                 row1[c] = IF c \in merged THEN 0
                           ELSE IF c + 1 \in merged THEN row0[c] + 1
                           ELSE row0[c]
            /\ game.score - before.score =
                 SumTo([c \in 1..NCOLS |->
                          IF c \in merged THEN Pow2((row0[c-1] + 1) - 1) ELSE 0],
                       NCOLS)
            /\ (ret # 0) <=> (merged # {})
            /\ ret \in {0, 1}
            /\ game.turns = before.turns
            /\ \A r \in 2..NROWS : game.board[r] = before.board[r]

\* combine_left has merged two pairs of a row that had gaps
C12_Witness ==
    /\ op = "combine_left" /\ ret = 1
    /\ before.board[1] = <<1, 1, 2, 2>>
    /\ game.board[1] = <<2, 0, 3, 0>>
    /\ game.score = before.score + 2 + 4

----------------------------------------------------------------------------
(* SpecPlace: place_tile called MaxCalls times in a row on a game whose    *)
(* board is made of two rows <<a, b, a, b>>, with the generator in any     *)
(* state of 0..MaxDraw.                                                    *)

PlaceBoards == {[r \in 1..NROWS |-> IF r % 2 = 1 THEN h1 ELSE h2] :
                   h1, h2 \in HalfRows}

InitPlace ==
    /\ game \in {[ZeroGame EXCEPT !.board = b] : b \in PlaceBoards}
    /\ ncalls = 0 /\ op = "none" /\ before = game /\ ret = 0
    /\ before_rng = 0
    /\ pc = "call" /\ seed = 0 /\ rng \in 0..MaxDraw
    /\ playing = FALSE /\ playfile = <<>> /\ pos = 0
    /\ recording = FALSE /\ recfile = <<>>
    /\ last_turn = 0 /\ key = 0 /\ place_ret = 0 /\ nreads = 0
    /\ hist = <<>> /\ session = 0 /\ live_hist = <<>>

CallPlaceTile ==
    /\ pc = "call" /\ ncalls < MaxCalls
    /\ LET p == place_tile(game, rng)
       IN  /\ game' = p.game
           /\ rng' = p.rng
           /\ ret' = p.ret
    /\ op' = "place_tile" /\ before' = game /\ before_rng' = rng
    /\ ncalls' = ncalls + 1
    /\ UNCHANGED <<pc, seed, playing, playfile, pos, recording, recfile,
                   last_turn, key, place_ret, nreads, hist, session,
                   live_hist>>

NextPlace == CallPlaceTile

SpecPlace == InitPlace /\ [][NextPlace]_vars

\* the empty cells of a board, by linear index, and the one with k empty
\* cells before it in row-major order
EmptyCells(b) == {i \in Cells : Cell(b, i) = 0}
KthEmpty(b, k) ==
    CHOOSE i \in EmptyCells(b) :
        Cardinality({j \in EmptyCells(b) : j < i}) = k

(* C18. Spawn placement: on a board with n >= 1 empty cells place_tile     *)
(* with cell draw k = random() % n writes rank 1 or 2 (1 unless the second *)
(* draw is a multiple of 10) into the (k+1)-th empty cell in row-major     *)
(* order and returns 0, all other cells, score and turns unchanged; with   *)
(* k = 0 and rank 1 on an empty board cell (0,0) gets rank 1; on a board   *)
(* with no empty cell it returns -1 and changes nothing.                   *)
C18_SpawnPlacement ==
    op = "place_tile" =>
        LET b == before.board
            n == Cardinality(EmptyCells(b))
            x1 == Random(before_rng)
            x2 == Random(x1)
        IN  IF n = 0
            THEN ret = -1 /\ game = before /\ rng = before_rng
            ELSE LET k == x1 % n
                     i == KthEmpty(b, k)
                 IN  /\ ret = 0
                     /\ Cell(game.board, i) \in {1, 2}
                     /\ (Cell(game.board, i) = 1) <=> (x2 % 10 # 0)
                     /\ \A j \in Cells \ {i} :
                           Cell(game.board, j) = Cell(b, j)
                     /\ game.score = before.score
                     /\ game.turns = before.turns
                     /\ (b = EmptyBoard /\ k = 0 /\ x2 % 10 # 0) =>
                           game.board = SetCell(EmptyBoard, 0, 1)

\* on an empty board, draw 0 and the 9/10 branch: rank 1 in cell (0,0)
C18_Witness ==
    /\ op = "place_tile" /\ ret = 0
    /\ before.board = EmptyBoard
    /\ game.board = SetCell(EmptyBoard, 0, 1)

----------------------------------------------------------------------------
(* Further properties of the session, checked under Spec *)

\* what the four moves of lose_game leave in its parameter test_game
TestGameAfter(g) == move_right(move_down(move_up(move_left(g))))

(* C13. The terminal check has no effect on the live game: lose_game at    *)
(* the top of the loop leaves board, score and turns of main()'s game as   *)
(* they were, whether it returns true or false; the four simulated moves,  *)
(* with what they add to score and turns, act on the copy only.            *)
C13_CheckLeavesGame ==
    [][ pc = "check" =>
          /\ game' = game
          /\ pc' \in {"lose", "input"}
          /\ Bind(TestGameAfter(game), LAMBDA t :
                /\ (pc' = "lose") <=> (t.turns = game.turns)
                /\ pc' = "input" => /\ t.turns > game.turns
                                    /\ last_turn' = game.turns)
      ]_vars

\* the check has returned false on a game whose copy the simulated moves
\* have changed in board, score and turns
C13_Witness ==
    /\ pc = "input" /\ last_turn = game.turns /\ game.turns > 0
    /\ TestGameAfter(game).score > game.score
    /\ TestGameAfter(game).turns > game.turns
    /\ TestGameAfter(game).board # game.board
    /\ game = hist[Len(hist)].game

RECURSIVE RefRun(_, _, _)
\* the game and the generator after the two initial tiles and the first n
\* effective moves of h, from the seed s alone, and whether the games
\* passed through are those h holds
RefRun(s, h, n) ==
    IF n = 0
    THEN Bind(place_tile(ZeroGame, s), LAMBDA p1 :
         Bind(place_tile(p1.game, p1.rng), LAMBDA p2 :
             [game |-> p2.game, rng |-> p2.rng, same |-> TRUE]))
    ELSE Bind(RefRun(s, h, n - 1), LAMBDA p :
         Bind(place_tile(ApplyMove(h[n].dir, p.game), p.rng), LAMBDA q :
             [game |-> q.game, rng |-> q.rng,
              same |-> p.same /\ h[n].game = q.game]))

(* C14. Determinism of a session: the game after every event is a function *)
(* of the seed and of the events so far, the same for every process (live  *)
(* or playback, recording or not), and so is each record appended.  The    *)
(* generator is advanced only by a place_tile that places a tile, by two   *)
(* draws; unrecognized keys, ineffective moves, the terminal check and a   *)
(* place_tile on a full board draw nothing.                                *)
C14_Determinism ==
    /\ [](pc = "check" =>
            /\ RefRun(seed, hist, Len(hist)) =
                  [game |-> game, rng |-> rng, same |-> TRUE]
            /\ CountZeros(game.board, 0) = 0 =>
                  place_tile(game, rng) = [game |-> game, rng |-> rng, ret |-> -1])
    /\ [][ /\ (rng' # rng /\ session' = session) =>
               /\ pc \in {"place1", "place2", "spawn"}
               /\ place_ret' = 0
               /\ rng' = Random(Random(rng))
           /\ (pc = "spawn" /\ pc' = "check") =>
               /\ rng' = Random(Random(rng))
               /\ recfile' = IF recording
                             THEN Append(recfile, RecordLine(key, game'))
                             ELSE recfile
           /\ pc \in {"check", "input"} => rng' = rng
           /\ (pc \in {"check", "input"} /\ pc' # "spawn") => game' = game
         ]_vars

\* the playback of a recording has made the moves of the live process and
\* is in the game the live process was in
C14_Witness ==
    /\ session = 2 /\ pc = "check"
    /\ Len(hist) = 2 /\ hist = live_hist
    /\ nreads = 2
    /\ game = live_hist[2].game

\* a board on which nothing can move: no empty cell and no two equal
\* neighbours in a row or in a column
Dead(b) ==
    /\ \A r \in 1..NROWS, c \in 1..NCOLS : b[r][c] # 0
    /\ \A r \in 1..NROWS, c \in 1..(NCOLS - 1) : b[r][c] # b[r][c+1]
    /\ \A r \in 1..(NROWS - 1), c \in 1..NCOLS : b[r][c] # b[r+1][c]

(* C19. Lost only on a dead board: the loop goes to lose if and only if    *)
(* the board has no empty cell and no two equal neighbours in a row or a   *)
(* column; a key is only read in a game where one of the four moves is     *)
(* effective, and a board with an empty cell is never declared lost.       *)
C19_LostIffDead ==
    /\ pc = "lose" => Dead(game.board)
    /\ pc = "input" =>
          /\ ~Dead(game.board)
          /\ \E m \in MoveOps : ApplyMove(m, game).turns # game.turns
    /\ pc = "check" => (lose_game(game) <=> Dead(game.board))
    /\ (pc = "lose" /\ CountZeros(game.board, 0) > 0) => FALSE

\* a process has lost, on a full board
C19_Witness ==
    /\ pc = "lose"
    /\ NumTiles(game.board) = NROWS * NCOLS
    /\ game.turns > 0

\* a key is read on a full board that has equal neighbours
C19_WitnessFullLive ==
    /\ pc = "input"
    /\ NumTiles(game.board) = NROWS * NCOLS
    /\ ~Dead(game.board)

(* C20. Turns and board over a session: at the top of the loop turns + 2   *)
(* tiles have been placed, so that the sum of the displayed values of the  *)
(* board lies between 2 * (turns + 2) and 4 * (turns + 2), the number of   *)
(* records appended to the record file equals turns, and the score never   *)
(* decreases from one state of a process to the next.                      *)
C20_TurnsConsistency ==
    /\ [](pc = "check" =>
            /\ Len(hist) = game.turns
            /\ BoardValue(game.board) >= 2 * (game.turns + 2)
            /\ BoardValue(game.board) <= 4 * (game.turns + 2)
            /\ recording => Len(recfile) = game.turns)
    /\ [][session' = session => game'.score >= game.score]_vars

\* a recording process at the top of the loop after two effective moves,
\* one of which merged
C20_Witness ==
    /\ pc = "check" /\ recording
    /\ game.turns = 2 /\ Len(recfile) = 2 /\ game.score > 0
    /\ NumTiles(game.board) < game.turns + 2

====
